---- MODULE Spec2Model ----
(***************************************************************************)
(* Model of split_first_layer.py: parse_gcode segments a G-code file,      *)
(* main splits the segments at a layer into two printable outputs.         *)
(*                                                                         *)
(* A line of text is modelled by its whitespace split: op is the first     *)
(* token ("" for the empty line) and args are the remaining tokens, each   *)
(* token given as its first character ax and the float of its remainder    *)
(* val.  Floats are integers here (every value used is integral).  An      *)
(* optional value (Python None or a value) is the empty or the one-element *)
(* sequence.  The layer sentinel "unset" is the integer Unset, which no    *)
(* \d+ layer number can equal.                                             *)
(***************************************************************************)
EXTENDS Integers, Sequences, FiniteSets, TLC

VARIABLES gcode, segments, resolved, layer, positioning_type,
          extruder_positioning_type, segment_type, segment_mesh,
          pc, err, split_at, keep_skirt,
          first_print_segments, second_print_segments

vars == <<gcode, segments, resolved, layer, positioning_type,
          extruder_positioning_type, segment_type, segment_mesh,
          pc, err, split_at, keep_skirt,
          first_print_segments, second_print_segments>>

\* ------------------------------------------------------------------ bounds
MaxLines == 4

\* --------------------------------------------------------------- constants
Unset == -1
DEFAULT_TYPE == "unset"
DEFAULT_MESH == "unset"
DEFAULT_POSITIONING == "unset"
MOV_OPCODES == {"G0", "G1", "G2", "G3"}
CONTROL_OPCODES == {"M140", "M104", "M105", "M106", "M109", "M190",
                    "G28", "M107", "M18", "M84", "G92"}
META_OPCODES == {";"}

\* ------------------------------------------------------------------- lines
Arg(ax, val) == [ax |-> ax, val |-> val]
Line(op, args) == [op |-> op, args |-> args]

Blank == Line("", <<>>)

\* The regular expressions, as the tokens of the input alphabet they match
\* and the group they capture.
layer_pattern == (";LAYER:0" :> 0) @@ (";LAYER:1" :> 1)
type_pattern == (";TYPE:SKIRT" :> "SKIRT")
mesh_pattern == (";MESH:m" :> "m")

MarkerTokens == DOMAIN layer_pattern \cup DOMAIN type_pattern
                \cup DOMAIN mesh_pattern

\* The tokens that start with ";": the markers and a plain comment.
CommentTokens == MarkerTokens \cup {";c"}

\* The lines an input file of main is drawn from.
InputLines ==
    {Blank}
    \cup {Line(t, <<>>) : t \in MarkerTokens}
    \cup {Line(o, <<>>) : o \in {"M82", "M83", "G90", "G91"}}
    \cup {Line("M140", <<Arg("S", 0)>>),
          Line("G1", <<Arg("Z", 1), Arg("E", 2)>>),
          Line("G92", <<Arg("E", 0)>>),
          Line("M999", <<>>)}

\* The lines a text given to parse_gcode alone is drawn from: those and a
\* plain comment and an arc move.
ParseLines ==
    InputLines \cup {Line(";c", <<>>), Line("G2", <<Arg("E", 2)>>)}

SplitLayers == {0, 1}

\* ----------------------------------------------------------- line helpers
None == <<>>
Some(v) == <<v>>

first_or_none(ls) == IF ls = <<>> THEN None ELSE Some(ls[1])

\* Python truthiness of an optional float: None and 0.0 are false.
Truthy(o) == o # None /\ o[1] # 0

NoOpcode == "None"

get_opcode(line) ==
    IF line.op = "" THEN NoOpcode
    ELSE IF line.op \in CommentTokens THEN ";" ELSE line.op

get_args(line) == IF line.op = "" THEN <<>> ELSE line.args

RECURSIVE AxisValues(_, _)
AxisValues(args, ax) ==
    IF args = <<>> THEN <<>>
    ELSE IF args[1].ax = ax
         THEN <<args[1].val>> \o AxisValues(Tail(args), ax)
         ELSE AxisValues(Tail(args), ax)

\* ---------------------------------------------------------------- Segment
Segment(lay, ty, me, se, sz, pt, ept, ls) ==
    [layer |-> lay, type |-> ty, mesh |-> me,
     start_e_position |-> se, start_z_position |-> sz,
     positioning_type |-> pt, extruder_positioning_type |-> ept,
     lines |-> ls]

RECURSIVE ScanE(_, _)
ScanE(seg, i) ==
    IF i = 0 THEN seg.start_e_position
    ELSE LET line == seg.lines[i] IN
         IF line.op # "" /\ line.op \notin {"G0", "G1"}
         THEN ScanE(seg, i - 1)
         ELSE LET e_pos == first_or_none(AxisValues(line.args, "E")) IN
              IF Truthy(e_pos)
              THEN IF seg.extruder_positioning_type = "rel"
                   THEN seg.start_e_position + e_pos[1]
                   ELSE IF seg.extruder_positioning_type = "unset"
                           /\ seg.positioning_type = "rel"
                        THEN seg.start_e_position + e_pos[1]
                        ELSE e_pos[1]
              ELSE ScanE(seg, i - 1)

last_e_position(seg) == ScanE(seg, Len(seg.lines))

RECURSIVE ScanZ(_, _)
ScanZ(seg, i) ==
    IF i = 0 THEN seg.start_z_position
    ELSE LET line == seg.lines[i] IN
         IF get_opcode(line) \notin {"G0", "G1"}
         THEN ScanZ(seg, i - 1)
         ELSE LET z_pos == first_or_none(AxisValues(get_args(line), "Z")) IN
              IF Truthy(z_pos)
              THEN IF seg.positioning_type = "rel"
                   THEN seg.start_z_position + z_pos[1]
                   ELSE z_pos[1]
              ELSE ScanZ(seg, i - 1)

last_z_position(seg) == ScanZ(seg, Len(seg.lines))

\* Mutant of control_lines: the comment lines are not kept.
control_lines_NoComments(seg) ==
    SelectSeq(seg.lines, LAMBDA line : get_opcode(line) \in CONTROL_OPCODES)

control_lines(seg) ==
    SelectSeq(seg.lines,
              LAMBDA line : get_opcode(line) \in CONTROL_OPCODES \cup META_OPCODES)

\* The memo of a segment's cached properties: nothing computed yet.
NoMemo == [e |-> None, z |-> None]

\* The value of a cached property: the memo when there is one.
cached_e(seg, memo) == IF memo.e # None THEN memo.e[1] ELSE last_e_position(seg)
cached_z(seg, memo) == IF memo.z # None THEN memo.z[1] ELSE last_z_position(seg)

\* ------------------------------------------------------------ parse_gcode
\* The closure variables of parse_gcode as one record.
Tracked(lay, ty, me, pt, ept) ==
    [layer |-> lay, type |-> ty, mesh |-> me,
     positioning_type |-> pt, extruder_positioning_type |-> ept]

IsSequenceReset(line) ==
    line.op = "M140" /\ line.args # <<>> /\ line.args[1] = Arg("S", 0)

\* Mutant of IsTrigger: a type marker opens no segment.
IsTrigger_NoType(line) ==
    /\ line.op # ""
    /\ \/ line.op \in DOMAIN layer_pattern
       \/ line.op \in DOMAIN mesh_pattern
       \/ get_opcode(line) \in {"M82", "M83", "G90", "G91"}
       \/ IsSequenceReset(line)

\* The branches of the loop that open a segment.
IsTrigger(line) ==
    /\ line.op # ""
    /\ \/ line.op \in DOMAIN layer_pattern
       \/ line.op \in DOMAIN type_pattern
       \/ line.op \in DOMAIN mesh_pattern
       \/ get_opcode(line) \in {"M82", "M83", "G90", "G91"}
       \/ IsSequenceReset(line)

\* Mutant of Update: a mesh marker leaves the type as it is.
Update_MeshKeepsType(st, line) ==
    IF line.op \in DOMAIN layer_pattern
    THEN [st EXCEPT !.layer = layer_pattern[line.op], !.type = DEFAULT_TYPE]
    ELSE IF line.op \in DOMAIN type_pattern
    THEN [st EXCEPT !.type = type_pattern[line.op]]
    ELSE IF line.op \in DOMAIN mesh_pattern
    THEN [st EXCEPT !.mesh = mesh_pattern[line.op]]
    ELSE IF get_opcode(line) = "M82"
    THEN [st EXCEPT !.extruder_positioning_type = "abs"]
    ELSE IF get_opcode(line) = "M83"
    THEN [st EXCEPT !.extruder_positioning_type = "rel"]
    ELSE IF get_opcode(line) = "G90"
    THEN [st EXCEPT !.positioning_type = "abs",
                    !.extruder_positioning_type = "unset"]
    ELSE IF get_opcode(line) = "G91"
    THEN [st EXCEPT !.positioning_type = "rel",
                    !.extruder_positioning_type = "unset"]
    ELSE [st EXCEPT !.layer = Unset]

\* The assignments of the branch a trigger line takes, in the order of the
\* elif chain.
Update(st, line) ==
    IF line.op \in DOMAIN layer_pattern
    THEN [st EXCEPT !.layer = layer_pattern[line.op], !.type = DEFAULT_TYPE]
    ELSE IF line.op \in DOMAIN type_pattern
    THEN [st EXCEPT !.type = type_pattern[line.op]]
    ELSE IF line.op \in DOMAIN mesh_pattern
    THEN [st EXCEPT !.mesh = mesh_pattern[line.op], !.type = "unset"]
    ELSE IF get_opcode(line) = "M82"
    THEN [st EXCEPT !.extruder_positioning_type = "abs"]
    ELSE IF get_opcode(line) = "M83"
    THEN [st EXCEPT !.extruder_positioning_type = "rel"]
    ELSE IF get_opcode(line) = "G90"
    THEN [st EXCEPT !.positioning_type = "abs",
                    !.extruder_positioning_type = "unset"]
    ELSE IF get_opcode(line) = "G91"
    THEN [st EXCEPT !.positioning_type = "rel",
                    !.extruder_positioning_type = "unset"]
    ELSE [st EXCEPT !.layer = Unset]

\* Mutant of AppendLine: an empty line is not kept.
AppendLine_SkipBlank(segs, line) ==
    IF line.op = "" THEN segs
    ELSE [segs EXCEPT ![Len(segs)].lines = Append(@, line)]

\* segments[-1].lines.append(line)
AppendLine(segs, line) ==
    [segs EXCEPT ![Len(segs)].lines = Append(@, line)]

\* Mutant of open_new_segment: the new segment starts where the last one
\* started, not where it ended.
open_new_segment_StaleStart(segs, memo, st) ==
    Append(segs,
           Segment(st.layer, st.type, st.mesh,
                   segs[Len(segs)].start_e_position,
                   segs[Len(segs)].start_z_position,
                   st.positioning_type, st.extruder_positioning_type, <<>>))

\* Mutant of open_new_segment: a trigger that leaves the tracked state as
\* it is opens no segment.
open_new_segment_OnChange(segs, memo, st) ==
    IF st = [layer |-> segs[Len(segs)].layer, type |-> segs[Len(segs)].type,
             mesh |-> segs[Len(segs)].mesh,
             positioning_type |-> segs[Len(segs)].positioning_type,
             extruder_positioning_type |->
                 segs[Len(segs)].extruder_positioning_type]
    THEN segs
    ELSE Append(segs,
           Segment(st.layer, st.type, st.mesh,
                   cached_e(segs[Len(segs)], memo[Len(segs)]),
                   cached_z(segs[Len(segs)], memo[Len(segs)]),
                   st.positioning_type, st.extruder_positioning_type, <<>>))

open_new_segment(segs, memo, st) ==
    Append(segs,
           Segment(st.layer, st.type, st.mesh,
                   cached_e(segs[Len(segs)], memo[Len(segs)]),
                   cached_z(segs[Len(segs)], memo[Len(segs)]),
                   st.positioning_type, st.extruder_positioning_type, <<>>))

\* Mutant of MemoAfterOpen: the new segment is resolved as soon as it is
\* opened, before its lines are appended.
MemoAfterOpen_Eager(segs, memo) ==
    Append([memo EXCEPT ![Len(segs)] =
                [e |-> Some(cached_e(segs[Len(segs)], memo[Len(segs)])),
                 z |-> Some(cached_z(segs[Len(segs)], memo[Len(segs)]))]],
           [e |-> Some(cached_e(segs[Len(segs)], memo[Len(segs)])),
            z |-> Some(cached_z(segs[Len(segs)], memo[Len(segs)]))])

\* The memos after open_new_segment read both properties of the last segment.
MemoAfterOpen(segs, memo) ==
    Append([memo EXCEPT ![Len(segs)] =
                [e |-> Some(cached_e(segs[Len(segs)], memo[Len(segs)])),
                 z |-> Some(cached_z(segs[Len(segs)], memo[Len(segs)]))]],
           NoMemo)

\* enumerate() counts the lines from 0.
LineNo(read) == Len(read)

NoErr == [kind |-> "none", lineno |-> 0, line |-> Blank]

Init ==
    /\ gcode = <<>>
    /\ segments = <<Segment(Unset, DEFAULT_TYPE, DEFAULT_MESH, 0, 0,
                            DEFAULT_POSITIONING, DEFAULT_POSITIONING, <<>>)>>
    /\ resolved = <<NoMemo>>
    /\ layer = Unset
    /\ positioning_type = DEFAULT_POSITIONING
    /\ extruder_positioning_type = DEFAULT_POSITIONING
    /\ segment_type = DEFAULT_TYPE
    /\ segment_mesh = DEFAULT_MESH
    /\ pc = "parse"
    /\ err = NoErr
    /\ split_at = 0
    /\ keep_skirt = FALSE
    /\ first_print_segments = <<>>
    /\ second_print_segments = <<>>

\* One iteration of the loop over gcode.splitlines().
ReadLine(line) ==
    /\ pc = "parse"
    /\ Len(gcode) < MaxLines
    /\ gcode' = Append(gcode, line)
    /\ LET st == Tracked(layer, segment_type, segment_mesh,
                         positioning_type, extruder_positioning_type)
           new == Update(st, line)
       IN
       IF line.op = ""
       THEN /\ segments' = AppendLine(segments, line)
            /\ UNCHANGED <<resolved, layer, segment_type, segment_mesh,
                           positioning_type, extruder_positioning_type,
                           pc, err>>
       ELSE IF IsTrigger(line)
       THEN /\ layer' = new.layer
            /\ segment_type' = new.type
            /\ segment_mesh' = new.mesh
            /\ positioning_type' = new.positioning_type
            /\ extruder_positioning_type' = new.extruder_positioning_type
            /\ segments' = AppendLine(open_new_segment(segments, resolved, new),
                                      line)
            /\ resolved' = MemoAfterOpen(segments, resolved)
            /\ UNCHANGED <<pc, err>>
       ELSE IF get_opcode(line) \in
                   MOV_OPCODES \cup CONTROL_OPCODES \cup META_OPCODES
       THEN /\ segments' = AppendLine(segments, line)
            /\ UNCHANGED <<resolved, layer, segment_type, segment_mesh,
                           positioning_type, extruder_positioning_type,
                           pc, err>>
       ELSE /\ pc' = "error"
            /\ err' = [kind |-> "Exception", lineno |-> LineNo(gcode),
                       line |-> line]
            /\ UNCHANGED <<segments, resolved, layer, segment_type,
                           segment_mesh, positioning_type,
                           extruder_positioning_type>>
    /\ UNCHANGED <<split_at, keep_skirt,
                   first_print_segments, second_print_segments>>

\* The loop is over: parse_gcode returns segments.
Return ==
    /\ pc = "parse"
    /\ pc' = "parsed"
    /\ UNCHANGED <<gcode, segments, resolved, layer, positioning_type,
                   extruder_positioning_type, segment_type, segment_mesh,
                   err, split_at, keep_skirt,
                   first_print_segments, second_print_segments>>

\* ---------------------------------------------------------------- to_gcode
\* The lines that "\n".join puts one per line.
RECURSIVE to_gcode(_)
to_gcode(segs) ==
    IF segs = <<>> THEN <<>>
    ELSE segs[1].lines \o to_gcode(Tail(segs))

\* -------------------------------------------------------------------- main
\* f"G92 E{...}" and f"G0 Z{...}"
SetExtruderLine(v) == Line("G92", <<Arg("E", v)>>)
MoveHeightLine(v) == Line("G0", <<Arg("Z", v)>>)

\* dataclasses.replace(segment, lines=ls)
replace(seg, ls) == [seg EXCEPT !.lines = ls]

\* Mutant of SplitBody: the split layer itself goes to the second print.
SplitBody_StrictlyBelow(out, i, k, keep) ==
    LET segment == segments[i] IN
    IF segment.layer = Unset \/ (keep /\ segment.type = "SKIRT")
    THEN [first |-> Append(out.first, segment),
          second |-> Append(out.second, segment)]
    ELSE IF segment.layer < k
    THEN [first |-> Append(out.first, segment),
          second |-> Append(out.second,
                            replace(segment, control_lines(segment)))]
    ELSE [first |-> out.first,
          second |-> Append(out.second,
              replace(segment,
                  <<SetExtruderLine(cached_e(segments[i - 1], resolved[i - 1])),
                    MoveHeightLine(cached_z(segments[i - 1], resolved[i - 1]))>>
                  \o segment.lines))]

\* Mutant of SplitBody: the extruder is set to where the preceding segment
\* started.
SplitBody_PrevStart(out, i, k, keep) ==
    LET segment == segments[i] IN
    IF segment.layer = Unset \/ (keep /\ segment.type = "SKIRT")
    THEN [first |-> Append(out.first, segment),
          second |-> Append(out.second, segment)]
    ELSE IF segment.layer <= k
    THEN [first |-> Append(out.first, segment),
          second |-> Append(out.second,
                            replace(segment, control_lines(segment)))]
    ELSE [first |-> out.first,
          second |-> Append(out.second,
              replace(segment,
                  <<SetExtruderLine(segments[i - 1].start_e_position),
                    MoveHeightLine(cached_z(segments[i - 1], resolved[i - 1]))>>
                  \o segment.lines))]

\* Mutant of SplitBody: a kept skirt of a layer <= k is stripped to its
\* control lines in the second print.
SplitBody_SkirtStripped(out, i, k, keep) ==
    LET segment == segments[i] IN
    IF segment.layer = Unset
    THEN [first |-> Append(out.first, segment),
          second |-> Append(out.second, segment)]
    ELSE IF segment.layer <= k
    THEN [first |-> Append(out.first, segment),
          second |-> Append(out.second,
                            replace(segment, control_lines(segment)))]
    ELSE IF keep /\ segment.type = "SKIRT"
    THEN [first |-> Append(out.first, segment),
          second |-> Append(out.second, segment)]
    ELSE [first |-> out.first,
          second |-> Append(out.second,
              replace(segment,
                  <<SetExtruderLine(cached_e(segments[i - 1], resolved[i - 1])),
                    MoveHeightLine(cached_z(segments[i - 1], resolved[i - 1]))>>
                  \o segment.lines))]

\* Mutant of SplitBody: a segment of a layer after the split goes to the
\* first print as well.
SplitBody_LaterInFirst(out, i, k, keep) ==
    LET segment == segments[i] IN
    IF segment.layer = Unset \/ (keep /\ segment.type = "SKIRT")
    THEN [first |-> Append(out.first, segment),
          second |-> Append(out.second, segment)]
    ELSE IF segment.layer <= k
    THEN [first |-> Append(out.first, segment),
          second |-> Append(out.second,
                            replace(segment, control_lines(segment)))]
    ELSE [first |-> Append(out.first, segment),
          second |-> Append(out.second,
              replace(segment,
                  <<SetExtruderLine(cached_e(segments[i - 1], resolved[i - 1])),
                    MoveHeightLine(cached_z(segments[i - 1], resolved[i - 1]))>>
                  \o segment.lines))]

\* Mutant of SplitBody: the height line comes before the extruder line.
SplitBody_HeightFirst(out, i, k, keep) ==
    LET segment == segments[i] IN
    IF segment.layer = Unset \/ (keep /\ segment.type = "SKIRT")
    THEN [first |-> Append(out.first, segment),
          second |-> Append(out.second, segment)]
    ELSE IF segment.layer <= k
    THEN [first |-> Append(out.first, segment),
          second |-> Append(out.second,
                            replace(segment, control_lines(segment)))]
    ELSE [first |-> out.first,
          second |-> Append(out.second,
              replace(segment,
                  <<MoveHeightLine(cached_z(segments[i - 1], resolved[i - 1])),
                    SetExtruderLine(cached_e(segments[i - 1], resolved[i - 1]))>>
                  \o segment.lines))]

\* The body of the loop over segments, for segments[i]; prev_segment is
\* segments[i - 1], or None in the first iteration.
SplitBody(out, i, k, keep) ==
    LET segment == segments[i] IN
    IF segment.layer = Unset
    THEN [first |-> Append(out.first, segment),
          second |-> Append(out.second, segment)]
    ELSE IF keep /\ segment.type = "SKIRT"
    THEN [first |-> Append(out.first, segment),
          second |-> Append(out.second, segment)]
    ELSE IF segment.layer <= k
    THEN [first |-> Append(out.first, segment),
          second |-> Append(out.second,
                            replace(segment, control_lines(segment)))]
    ELSE IF i > 1
    THEN [first |-> out.first,
          second |-> Append(out.second,
              replace(segment,
                  <<SetExtruderLine(cached_e(segments[i - 1], resolved[i - 1])),
                    MoveHeightLine(cached_z(segments[i - 1], resolved[i - 1]))>>
                  \o segment.lines))]
    ELSE [first |-> out.first, second |-> Append(out.second, segment)]

RECURSIVE SplitLoop(_, _, _)
SplitLoop(n, k, keep) ==
    IF n = 0 THEN [first |-> <<>>, second |-> <<>>]
    ELSE SplitBody(SplitLoop(n - 1, k, keep), n, k, keep)

\* The segments whose cached properties the loop reads: every prev_segment
\* of a segment that takes the continuity branch.
ReadsPrev(j, k, keep) ==
    /\ j < Len(segments)
    /\ segments[j + 1].layer # Unset
    /\ ~(keep /\ segments[j + 1].type = "SKIRT")
    /\ ~(segments[j + 1].layer <= k)

MemoAfterSplit(k, keep) ==
    [j \in DOMAIN resolved |->
        IF ReadsPrev(j, k, keep)
        THEN [e |-> Some(cached_e(segments[j], resolved[j])),
              z |-> Some(cached_z(segments[j], resolved[j]))]
        ELSE resolved[j]]

\* The layers max() ranges over.
SecondLayers(second) ==
    {second[i].layer : i \in {j \in DOMAIN second : second[j].layer # Unset}}

\* main after parse_gcode returned: the loop over the segments, then max().
Split(k, keep) ==
    /\ pc = "parsed"
    /\ split_at' = k
    /\ keep_skirt' = keep
    /\ LET out == SplitLoop(Len(segments), k, keep) IN
       /\ first_print_segments' = out.first
       /\ second_print_segments' = out.second
       /\ IF SecondLayers(out.second) = {}
          THEN /\ pc' = "error"
               /\ err' = [kind |-> "ValueError", lineno |-> 0, line |-> Blank]
          ELSE /\ pc' = "done"
               /\ err' = err
    /\ resolved' = MemoAfterSplit(k, keep)
    /\ UNCHANGED <<gcode, segments, layer, positioning_type,
                   extruder_positioning_type, segment_type, segment_mesh>>

Next ==
    \/ \E line \in InputLines : ReadLine(line)
    \/ Return
    \/ \E k \in SplitLayers, keep \in BOOLEAN : Split(k, keep)

Spec == Init /\ [][Next]_vars

\* parse_gcode alone, on a text of ParseLines.
NextParse ==
    \/ \E line \in ParseLines : ReadLine(line)
    \/ Return

SpecParse == Init /\ [][NextParse]_vars

\* ===================================================================
\* Properties
\* ===================================================================

\* parse_gcode returned (main may have gone on to split).
Parsed == pc \in {"parsed", "done"} \/ err.kind = "ValueError"

TrackedOf(seg) ==
    Tracked(seg.layer, seg.type, seg.mesh,
            seg.positioning_type, seg.extruder_positioning_type)

\* The segments main copies whole to both outputs.
Shared(seg) == seg.layer = Unset \/ (keep_skirt /\ seg.type = "SKIRT")
\* The segments of the layers after the split that are not shared.
Later(seg) == ~Shared(seg) /\ seg.layer > split_at
\* The segments the first output takes.
GoesFirst(seg) == Shared(seg) \/ seg.layer <= split_at

IsMove(line) == line.op \in MOV_OPCODES

\* C1: the lines of the returned segments, in segment order and then line
\* order, are the input's lines: none lost, duplicated, added or reordered.
C1_Completeness == Parsed => to_gcode(segments) = gcode

C1_Witness ==
    /\ pc = "parsed"
    /\ Len(gcode) = MaxLines
    /\ Len(segments) >= 3
    /\ \E i \in DOMAIN gcode : gcode[i] = Blank
    /\ \E i \in DOMAIN gcode : IsMove(gcode[i])

\* C2: every returned segment after the first starts where the one before
\* it ends, the end being resolved from that segment's final lines.
C2_Continuity ==
    Parsed =>
        \A i \in 2..Len(segments) :
            /\ segments[i].start_e_position = last_e_position(segments[i - 1])
            /\ segments[i].start_z_position = last_z_position(segments[i - 1])

C2_Witness ==
    /\ pc = "parsed"
    /\ \E i \in 2..Len(segments) :
          /\ segments[i].start_e_position > 0
          /\ segments[i].start_z_position > 0
          /\ segments[i].start_e_position # segments[i - 1].start_e_position
          /\ \E j \in DOMAIN segments[i].lines : IsMove(segments[i].lines[j])

\* ------------------------------------------------------------ the split
Min(S) == CHOOSE x \in S : \A y \in S : x <= y
Max(S) == CHOOSE x \in S : \A y \in S : x >= y

IsSuffix(s, t) ==
    Len(s) <= Len(t) /\ SubSeq(t, Len(t) - Len(s) + 1, Len(t)) = s

\* The place in the first output of the copy of segments[i].
FirstIndex(i) == Cardinality({j \in 1..i : GoesFirst(segments[j])})

\* second[j] is segments[i], its lines possibly preceded by added lines.
AppearsRewritten(i, j) ==
    /\ replace(second_print_segments[j], segments[i].lines) = segments[i]
    /\ IsSuffix(segments[i].lines, second_print_segments[j].lines)

AppearsInFirst(i) ==
    \E j \in DOMAIN first_print_segments : first_print_segments[j] = segments[i]

\* C3: every segment of layer <= k, of layer Unset, or a kept skirt is in the
\* first output with its lines unmodified; every segment of layer > k is in
\* the second output with all its lines; no segment is in neither output.
C3_SplitCompleteness ==
    pc = "done" =>
        \A i \in DOMAIN segments :
            /\ GoesFirst(segments[i]) => AppearsInFirst(i)
            /\ (segments[i].layer # Unset /\ segments[i].layer > split_at)
                  => \E j \in DOMAIN second_print_segments : AppearsRewritten(i, j)
            /\ \/ AppearsInFirst(i)
               \/ \E j \in DOMAIN second_print_segments : AppearsRewritten(i, j)

C3_Witness ==
    /\ pc = "done"
    /\ \E i, j \in DOMAIN segments :
          /\ Later(segments[i])
          /\ ~Shared(segments[j]) /\ segments[j].layer = split_at
          /\ \E t \in DOMAIN segments[i].lines : IsMove(segments[i].lines[t])
          /\ \E t \in DOMAIN segments[j].lines : IsMove(segments[j].lines[t])

\* The segments of layer > k that get the continuity lines, and the first.
LaterIdx == {i \in DOMAIN segments : Later(segments[i])}
\* The segments of a layer <= k before segments[i].
EarlierIdx(i) ==
    {j \in 1..(i - 1) : segments[j].layer # Unset /\ segments[j].layer <= split_at}

\* C4 as claimed: the copy of the first segment of a layer > k begins with
\* G92 E<v>, v the resolved end of the last segment of a layer <= k before it.
C4_SetsEndOfLastEarlierSegment ==
    (pc = "done" /\ LaterIdx # {}) =>
        LET i == Min(LaterIdx) IN
        EarlierIdx(i) # {} =>
            /\ second_print_segments[i].lines # <<>>
            /\ second_print_segments[i].lines[1] =
                   SetExtruderLine(last_e_position(segments[Max(EarlierIdx(i))]))

\* C4 amended: the copy of the first segment of a layer > k begins with
\* G92 E<v>, v the resolved end of the segment just before it in the input,
\* then the height line, then the segment's own lines.
C4_SetsEndOfPrecedingSegment ==
    (pc = "done" /\ LaterIdx # {}) =>
        LET i == Min(LaterIdx)
            ls == second_print_segments[i].lines
        IN /\ i > 1
           /\ Len(ls) = Len(segments[i].lines) + 2
           /\ ls[1] = SetExtruderLine(last_e_position(segments[i - 1]))
           /\ SubSeq(ls, 3, Len(ls)) = segments[i].lines

C4_Witness ==
    /\ pc = "done"
    /\ LaterIdx # {}
    /\ LET i == Min(LaterIdx) IN
       /\ EarlierIdx(i) # {}
       /\ Max(EarlierIdx(i)) # i - 1
       /\ last_e_position(segments[i - 1])
              # last_e_position(segments[Max(EarlierIdx(i))])

\* ---------------------------------------------------------- the machine
\* The printer of claims C5 and C6: an extruder coordinate, a height and
\* the two positioning modes; G90 and G91 switch both modes, M82 and M83
\* the extruder's only.
MachineInit == [e |-> 0, z |-> 0, pos |-> "abs", epos |-> "abs"]

Exec(m, line) ==
    LET e == first_or_none(AxisValues(line.args, "E"))
        z == first_or_none(AxisValues(line.args, "Z"))
    IN
    IF line.op = "G90" THEN [m EXCEPT !.pos = "abs", !.epos = "abs"]
    ELSE IF line.op = "G91" THEN [m EXCEPT !.pos = "rel", !.epos = "rel"]
    ELSE IF line.op = "M82" THEN [m EXCEPT !.epos = "abs"]
    ELSE IF line.op = "M83" THEN [m EXCEPT !.epos = "rel"]
    ELSE IF line.op = "G92"
    THEN [m EXCEPT !.e = IF e = None THEN @ ELSE e[1],
                   !.z = IF z = None THEN @ ELSE z[1]]
    ELSE IF line.op \in {"G0", "G1"}
    THEN [m EXCEPT !.e = IF e = None THEN @
                         ELSE IF m.epos = "rel" THEN @ + e[1] ELSE e[1],
                   !.z = IF z = None THEN @
                         ELSE IF m.pos = "rel" THEN @ + z[1] ELSE z[1]]
    ELSE m

\* The machine after the first n lines.
RECURSIVE Run(_, _)
Run(lines, n) == IF n = 0 THEN MachineInit ELSE Exec(Run(lines, n - 1), lines[n])

\* The filament line n extrudes.
Extruded(lines, n) == Run(lines, n).e - Run(lines, n - 1).e

\* The number of lines before segment i of segs.
LinesBefore(segs, i) == Len(to_gcode(SubSeq(segs, 1, i - 1)))

\* Lines added in front of the copy of segments[i] in the second output.
Added(i) == Len(second_print_segments[i].lines) - Len(segments[i].lines)

\* C5: every line the second output copies from a segment of a layer > k
\* extrudes there what it extrudes in the input.
C5_SameExtrusion ==
    pc = "done" =>
        \A i \in DOMAIN segments :
            (segments[i].layer # Unset /\ segments[i].layer > split_at) =>
                \A t \in DOMAIN segments[i].lines :
                    IsMove(segments[i].lines[t]) =>
                        Extruded(to_gcode(second_print_segments),
                                 LinesBefore(second_print_segments, i)
                                     + Added(i) + t)
                        = Extruded(gcode, LinesBefore(segments, i) + t)

\* For each line of the copy of segments[i] in the second output, the place
\* in segments[i] it was copied from, 0 for a line main made up.
Indices(n) == [t \in 1..n |-> t]

Origin(i) ==
    LET seg == segments[i] IN
    IF Shared(seg) THEN Indices(Len(seg.lines))
    ELSE IF seg.layer <= split_at
    THEN SelectSeq(Indices(Len(seg.lines)),
                   LAMBDA t : get_opcode(seg.lines[t])
                                  \in CONTROL_OPCODES \cup META_OPCODES)
    ELSE IF i > 1 THEN <<0, 0>> \o Indices(Len(seg.lines))
    ELSE Indices(Len(seg.lines))

Modes(m) == <<m.pos, m.epos>>

\* C6: at every line the second output copied from the input, the machine
\* running the second output is in the modes the machine running the input
\* is in at that line.
C6_ModesPreserved ==
    pc = "done" =>
        \A i \in DOMAIN segments :
            \A t \in DOMAIN second_print_segments[i].lines :
                Origin(i)[t] # 0 =>
                    Modes(Run(to_gcode(second_print_segments),
                              LinesBefore(second_print_segments, i) + t - 1))
                    = Modes(Run(gcode, LinesBefore(segments, i) + Origin(i)[t] - 1))

\* C7: every segment of layer Unset, and every skirt segment when keep_skirt
\* is on, is in both outputs as it is in the input, in the input's order.
C7_SharedKeptWhole ==
    pc = "done" =>
        /\ Len(second_print_segments) = Len(segments)
        /\ \A i \in DOMAIN segments :
              Shared(segments[i]) =>
                  /\ second_print_segments[i] = segments[i]
                  /\ FirstIndex(i) \in DOMAIN first_print_segments
                  /\ first_print_segments[FirstIndex(i)] = segments[i]

C7_Witness ==
    /\ pc = "done"
    /\ keep_skirt
    /\ \E i, j \in DOMAIN segments :
          /\ segments[i].type = "SKIRT" /\ segments[i].layer > split_at
          /\ \E t \in DOMAIN segments[i].lines : IsMove(segments[i].lines[t])
          /\ segments[j].layer = Unset
          /\ \E t \in DOMAIN segments[j].lines : IsMove(segments[j].lines[t])

\* ------------------------------------------------------------- segmenting
RECURSIVE TriggerCount(_)
TriggerCount(lines) ==
    IF lines = <<>> THEN 0
    ELSE (IF IsTrigger(lines[1]) THEN 1 ELSE 0) + TriggerCount(Tail(lines))

\* C8 as claimed: two adjacent segments differ in a tracked field, unless
\* the later begins with the sequence-reset line.
C8_AdjacentSegmentsDiffer ==
    Parsed =>
        \A i \in 1..(Len(segments) - 1) :
            \/ TrackedOf(segments[i]) # TrackedOf(segments[i + 1])
            \/ IsSequenceReset(segments[i + 1].lines[1])

\* C8 amended: a segment is opened for every trigger line and for nothing
\* else, also when the trigger restates the state in effect; two adjacent
\* segments with the same tracked fields are separated by such a trigger.
C8_SegmentPerTrigger ==
    Parsed =>
        /\ Len(segments) = 1 + TriggerCount(gcode)
        /\ \A i \in 1..(Len(segments) - 1) :
              TrackedOf(segments[i]) = TrackedOf(segments[i + 1]) =>
                  /\ IsTrigger(segments[i + 1].lines[1])
                  /\ Update(TrackedOf(segments[i]), segments[i + 1].lines[1])
                         = TrackedOf(segments[i])

C8_Witness ==
    /\ pc = "parsed"
    /\ \E i, j \in 1..(Len(segments) - 1) :
          /\ TrackedOf(segments[i]) = TrackedOf(segments[i + 1])
          /\ ~IsSequenceReset(segments[i + 1].lines[1])
          /\ TrackedOf(segments[j]) # TrackedOf(segments[j + 1])

\* ------------------------------------------------------------------ errors
\* C9: the error for an unrecognized line reports the line's number counted
\* from 1 and its text.
C9_ReportsOneBasedLineNumber ==
    (pc = "error" /\ err.kind = "Exception") =>
        /\ err.lineno = Len(gcode)
        /\ err.line = gcode[Len(gcode)]

\* C10: once the input has parsed, the split and its max() raise no error.
C10_SplitNeverRaises == err.kind # "ValueError"

\* ------------------------------------------------------------- resolution
\* The lines of the texts the position properties are resolved on: the mode
\* switches and linear moves with an extruder, a height or neither argument,
\* zero values included.
ResolveLines ==
    {Line(o, <<>>) : o \in {"M82", "M83", "G90", "G91"}}
    \cup {Line("G1", <<Arg("E", 2)>>), Line("G1", <<Arg("E", 0)>>),
          Line("G1", <<Arg("Z", 1)>>), Line("G1", <<Arg("Z", 0)>>),
          Line("G1", <<Arg("X", 1)>>)}

\* parse_gcode alone, on a text of ResolveLines.
NextResolve ==
    \/ \E line \in ResolveLines : ReadLine(line)
    \/ Return

SpecResolve == Init /\ [][NextResolve]_vars

\* The linear moves of a segment that carry an argument of axis ax.
AxisMoves(seg, ax) ==
    {t \in DOMAIN seg.lines :
        /\ seg.lines[t].op \in {"G0", "G1"}
        /\ AxisValues(seg.lines[t].args, ax) # <<>>}

LastAxisValue(seg, ax) ==
    AxisValues(seg.lines[Max(AxisMoves(seg, ax))].args, ax)[1]

\* C11: last_e_position is given by the last linear move with an extruder
\* argument, whatever its value v: start_e_position + v when the extruder
\* mode is relative, or unset while the general mode is relative, v
\* otherwise; start_e_position when there is no such move.
C11_ExtruderResolution ==
    \A i \in DOMAIN segments :
        LET seg == segments[i] IN
        last_e_position(seg) =
            IF AxisMoves(seg, "E") = {} THEN seg.start_e_position
            ELSE IF \/ seg.extruder_positioning_type = "rel"
                    \/ /\ seg.extruder_positioning_type = "unset"
                       /\ seg.positioning_type = "rel"
                 THEN seg.start_e_position + LastAxisValue(seg, "E")
                 ELSE LastAxisValue(seg, "E")

\* C12: last_z_position is given by the last linear move with a height
\* argument, whatever its value v: start_z_position + v when the general
\* mode is relative, v otherwise; start_z_position when there is no such
\* move; the extruder mode plays no part.
C12_HeightResolution ==
    \A i \in DOMAIN segments :
        LET seg == segments[i] IN
        last_z_position(seg) =
            IF AxisMoves(seg, "Z") = {} THEN seg.start_z_position
            ELSE IF seg.positioning_type = "rel"
                 THEN seg.start_z_position + LastAxisValue(seg, "Z")
                 ELSE LastAxisValue(seg, "Z")

\* ------------------------------------------------------- stripped segments
\* The segments of a layer <= k that are not shared.
Stripped(seg) == ~Shared(seg) /\ seg.layer <= split_at

IsControlOrComment(line) ==
    line.op \in CONTROL_OPCODES \/ line.op \in CommentTokens

\* C13: the second output's copy of a segment of a layer <= k that is not
\* shared has exactly the segment's control and comment lines, in order, and
\* no movement line; the first output's copy is the segment as it is.
C13_StrippedToControlLines ==
    pc = "done" =>
        \A i \in DOMAIN segments :
            Stripped(segments[i]) =>
                /\ second_print_segments[i].lines
                       = SelectSeq(segments[i].lines, IsControlOrComment)
                /\ \A t \in DOMAIN second_print_segments[i].lines :
                       ~IsMove(second_print_segments[i].lines[t])
                /\ replace(second_print_segments[i], segments[i].lines)
                       = segments[i]
                /\ first_print_segments[FirstIndex(i)] = segments[i]

C13_Witness ==
    /\ pc = "done"
    /\ \E i \in DOMAIN segments :
          /\ Stripped(segments[i])
          /\ \E t \in DOMAIN segments[i].lines : IsMove(segments[i].lines[t])
          /\ \E t \in DOMAIN segments[i].lines : segments[i].lines[t].op = "G92"
          /\ \E t \in DOMAIN segments[i].lines :
                segments[i].lines[t].op \in CommentTokens
          /\ Len(second_print_segments[i].lines) = 2

\* C14: after the machine has run the second output up to and including the
\* height move put before a segment of a layer > k, its height is the
\* resolved ending height of the segment before that one in the input.
C14_HeightPinned ==
    pc = "done" =>
        \A i \in DOMAIN segments :
            (Later(segments[i]) /\ i > 1) =>
                Run(to_gcode(second_print_segments),
                    LinesBefore(second_print_segments, i) + 2).z
                = last_z_position(segments[i - 1])

\* ------------------------------------------------------- transition table
AllUnset == Tracked(Unset, "unset", "unset", "unset", "unset")

\* The trigger table, by the lines of the input alphabet.
TableUpdate(st, line) ==
    CASE line = Line(";LAYER:0", <<>>) ->
             [st EXCEPT !.layer = 0, !.type = "unset"]
      [] line = Line(";LAYER:1", <<>>) ->
             [st EXCEPT !.layer = 1, !.type = "unset"]
      [] line = Line(";TYPE:SKIRT", <<>>) -> [st EXCEPT !.type = "SKIRT"]
      [] line = Line(";MESH:m", <<>>) ->
             [st EXCEPT !.mesh = "m", !.type = "unset"]
      [] line = Line("M82", <<>>) ->
             [st EXCEPT !.extruder_positioning_type = "abs"]
      [] line = Line("M83", <<>>) ->
             [st EXCEPT !.extruder_positioning_type = "rel"]
      [] line = Line("G90", <<>>) ->
             [st EXCEPT !.positioning_type = "abs",
                        !.extruder_positioning_type = "unset"]
      [] line = Line("G91", <<>>) ->
             [st EXCEPT !.positioning_type = "rel",
                        !.extruder_positioning_type = "unset"]
      [] line = Line("M140", <<Arg("S", 0)>>) -> [st EXCEPT !.layer = Unset]

\* C15: the first segment records the all-Unset state, and every later
\* segment records the state of the segment before it updated by the
\* trigger table for the line that opened it; the loop's variables hold the
\* state of the last segment.
C15_TransitionTable ==
    /\ TrackedOf(segments[1]) = AllUnset
    /\ \A i \in 2..Len(segments) :
          TrackedOf(segments[i])
              = TableUpdate(TrackedOf(segments[i - 1]), segments[i].lines[1])
    /\ Tracked(layer, segment_type, segment_mesh,
               positioning_type, extruder_positioning_type)
           = TrackedOf(segments[Len(segments)])

C15_Witness ==
    /\ pc = "parsed"
    /\ \E i, j \in 2..Len(segments) :
          /\ segments[i].lines[1].op = ";MESH:m"
          /\ segments[i - 1].type = "SKIRT"
          /\ segments[j].lines[1].op \in {"G90", "G91"}
          /\ segments[j - 1].extruder_positioning_type # "unset"

\* ------------------------------------------------------ trigger placement
\* The trigger lines of the input alphabet.
TriggerLines ==
    {Line(t, <<>>) : t \in {";LAYER:0", ";LAYER:1", ";TYPE:SKIRT", ";MESH:m",
                            "M82", "M83", "G90", "G91"}}
    \cup {Line("M140", <<Arg("S", 0)>>)}

\* C16: a line of a segment is a trigger line exactly when it is the first
\* line of a segment other than the initial one; every other line, a blank
\* line included, is in the segment that was open when it was read, so the
\* segments are the input cut before each trigger line.
C16_TriggerPlacement ==
    pc # "error" =>
        /\ \A i \in DOMAIN segments :
              /\ i > 1 => segments[i].lines # <<>>
              /\ \A t \in DOMAIN segments[i].lines :
                    segments[i].lines[t] \in TriggerLines <=> (i > 1 /\ t = 1)
        /\ to_gcode(segments) = gcode

C16_Witness ==
    /\ pc = "parsed"
    /\ Len(segments) >= 3
    /\ segments[1].lines # <<>>
    /\ \E i \in 2..Len(segments) :
          \E t \in 2..Len(segments[i].lines) : segments[i].lines[t] = Blank

\* ------------------------------------------------------------------ memos
\* C17: a segment whose position has been resolved is closed (it is not the
\* last segment, the only one lines are appended to), and its memo is the
\* value resolved from the lines it has now.
C17_MemoNeverStale ==
    \A i \in DOMAIN resolved :
        /\ resolved[i].e # None =>
              /\ i < Len(segments)
              /\ resolved[i].e[1] = last_e_position(segments[i])
        /\ resolved[i].z # None =>
              /\ i < Len(segments)
              /\ resolved[i].z[1] = last_z_position(segments[i])

C17_Witness ==
    /\ pc = "done"
    /\ \E j \in DOMAIN segments :
          /\ ReadsPrev(j, split_at, keep_skirt)
          /\ resolved[j].e # None /\ resolved[j].z # None
          /\ resolved[j].e[1] # segments[j].start_e_position
          /\ resolved[j].z[1] # segments[j].start_z_position

\* ----------------------------------------------------------- first output
\* C18: the first output is the input's segments of layer Unset, of a layer
\* <= k, or kept skirts, in order and unchanged: no segment of a later
\* layer and no added line.
C18_FirstStopsAtSplit ==
    pc = "done" =>
        /\ first_print_segments = SelectSeq(segments, GoesFirst)
        /\ \A j \in DOMAIN first_print_segments :
              ~Later(first_print_segments[j])

C18_Witness ==
    /\ pc = "done"
    /\ Len(first_print_segments) >= 2
    /\ \E i, j \in DOMAIN segments :
          /\ Later(segments[i])
          /\ \E t \in DOMAIN segments[i].lines : IsMove(segments[i].lines[t])
          /\ Stripped(segments[j])

\* C19: the initial segment has layer Unset, so a segment of a layer > k
\* that is not a kept skirt always has a segment before it, and its copy in
\* the second output is G92 E<end of that segment>, G0 Z<end of that
\* segment> and then its own lines.
C19_ContinuityPair ==
    pc = "done" =>
        /\ segments[1].layer = Unset
        /\ \A i \in DOMAIN segments :
              Later(segments[i]) =>
                  /\ i > 1
                  /\ second_print_segments[i] =
                         replace(segments[i],
                             <<SetExtruderLine(last_e_position(segments[i - 1])),
                               MoveHeightLine(last_z_position(segments[i - 1]))>>
                             \o segments[i].lines)

C19_Witness ==
    /\ pc = "done"
    /\ \E i \in 3..Len(segments) :
          /\ Later(segments[i]) /\ Later(segments[i - 1])
          /\ last_e_position(segments[i - 1]) # 0
          /\ last_z_position(segments[i - 1]) # 0

====
